---------------------------- MODULE Spec2Model ----------------------------
(***************************************************************************)
(* Lazy S3-to-R2 migration worker (openaddresses).  The repository holds   *)
(* two snapshots of the same request pipeline, src/src/index.ts and        *)
(* src/unnamed/part_000; the variable "variant" says which one serves.     *)
(*                                                                         *)
(* Strings are sequences of one-character strings.  Three tokens stand for *)
(* bytes that cannot be written here: "x01" is the control byte 0x01,      *)
(* "xE9" is the non-ASCII byte 0xE9 and "x60" is the grave accent.  A      *)
(* bucket or host name is one token, and so is the scheme and host of an   *)
(* absolute URL.                                                           *)
(***************************************************************************)
EXTENDS Integers, Sequences, FiniteSets, TLC

VARIABLES
    sIn,        \* sanitizer harness: the input string
    sOut,       \* sanitizer harness: the result of the last call
    sPc,        \* sanitizer harness: "new", "once" (one call), "twice"
    variant,    \* which snapshot serves: "index.ts" or "part_000"
    env,        \* the bindings the handler reads: [R2_OBJECT_PREFIX]
    urlParser,  \* the URL parser of the runtime: "standard" or "fastpath"
    clock,      \* Date.now(), in hours
    ledger,     \* OA_USAGE: fingerprint key -> [usage, timestamp]
    r2,         \* env.R2: storage key -> [body, redirect, httpMetadata]
    origin,     \* the origin store, fixed on first fetch: URL path -> answer
    edgeCache,  \* caches.default: request URL -> response
    mwCache,    \* caches.open('default') of the cache middleware
    r2Puts,     \* waitUntil(env.R2.put(...)) not yet settled
    cachePuts,  \* waitUntil(cache.put(...)) of the handler not yet settled
    mwPuts,     \* waitUntil(cache.put(...)) of the middleware not yet settled
    rq,         \* the request being served (or the last one served)
    nreq,       \* number of requests started
    parked,     \* requests suspended at an await while another one runs
    uPc,        \* limiter harness: per caller, "idle", "got" (a track between its
                \* get and its put) or "checking" (a check after its get)
    uArg,       \* limiter harness: per caller, [fp, bytes, read, began] of its call
    uLog        \* limiter harness: the completed calls, oldest first

sanVars == <<sIn, sOut, sPc>>
storeVars == <<r2, origin, edgeCache, mwCache, r2Puts, cachePuts, mwPuts>>
pipeVars == <<variant, env, urlParser, rq, nreq, parked>>
useVars == <<uPc, uArg, uLog>>
vars == <<sIn, sOut, sPc, variant, env, urlParser, clock, ledger, r2, origin, edgeCache, mwCache,
          r2Puts, cachePuts, mwPuts, rq, nreq, parked, uPc, uArg, uLog>>

(***************************************************************************)
(* Character classes of the regular expressions in sanitizePath.           *)
(***************************************************************************)
Lower == {"a","b","c","d","e","f","g","h","i","j","k","l","m",
          "n","o","p","q","r","s","t","u","v","w","x","y","z"}
Upper == {"A","B","C","D","E","F","G","H","I","J","K","L","M",
          "N","O","P","Q","R","S","T","U","V","W","X","Y","Z"}
Digit == {"0","1","2","3","4","5","6","7","8","9"}

\* [\x00-\x1F\x7F-\xFF]
CtlOrHigh == {"x01", "xE9"}

\* [0-9A-Fa-f]
HexDigit == Digit \cup {"A","B","C","D","E","F","a","b","c","d","e","f"}

\* [a-zA-Z0-9_\-\.\/]
Whitelist == Lower \cup Upper \cup Digit \cup {"_", "-", ".", "/"}

\* /%[0-1][0-9A-Fa-f]/ matches at the head of s
PctCtlAtHead(s) ==
    /\ Len(s) >= 3
    /\ s[1] = "%"
    /\ s[2] \in {"0", "1"}
    /\ s[3] \in HexDigit

RECURSIVE HasPctCtl(_)
\* /%[0-1][0-9A-Fa-f]/.test(s)
HasPctCtl(s) ==
    IF s = <<>> THEN FALSE
    ELSE PctCtlAtHead(s) \/ HasPctCtl(Tail(s))

\* /[\x00-\x1F\x7F-\xFF]/.test(s)
HasCtl(s) == \E i \in 1..Len(s) : s[i] \in CtlOrHigh

\* path.replace(/[\x00-\x1F\x7F-\xFF]/g, '')
StripCtl(s) == SelectSeq(s, LAMBDA c : c \notin CtlOrHigh)

RECURSIVE StripPctCtl(_)
\* sanitized.replace(/%[0-1][0-9A-Fa-f]/g, ''): one left-to-right pass over
\* non-overlapping matches
StripPctCtl(s) ==
    IF s = <<>> THEN <<>>
    ELSE IF PctCtlAtHead(s) THEN StripPctCtl(SubSeq(s, 4, Len(s)))
    ELSE <<Head(s)>> \o StripPctCtl(Tail(s))

RECURSIVE CollapseSlashes(_)
\* sanitized.replace(/\/+/g, '/')
CollapseSlashes(s) ==
    IF Len(s) < 2 THEN s
    ELSE IF s[1] = "/" /\ s[2] = "/" THEN CollapseSlashes(Tail(s))
    ELSE <<Head(s)>> \o CollapseSlashes(Tail(s))

RECURSIVE Split(_)
\* s.split('/'): the segments between slashes (one empty segment for '')
Split(s) ==
    IF \A i \in 1..Len(s) : s[i] # "/" THEN <<s>>
    ELSE LET k == CHOOSE i \in 1..Len(s) :
                      s[i] = "/" /\ \A j \in 1..(i-1) : s[j] # "/"
         IN  <<SubSeq(s, 1, k-1)>> \o Split(SubSeq(s, k+1, Len(s)))

RECURSIVE Join(_)
\* parts.join('/')
Join(parts) ==
    IF parts = <<>> THEN <<>>
    ELSE IF Len(parts) = 1 THEN parts[1]
    ELSE parts[1] \o <<"/">> \o Join(Tail(parts))

\* .split('/').filter(part => part !== '..' && part !== '.').join('/')
DropDotSegments(s) ==
    Join(SelectSeq(Split(s), LAMBDA part : part # <<".", ".">> /\ part # <<".">>))

\* sanitized.replace(/[^a-zA-Z0-9_\-\.\/]/g, '')
KeepWhitelist(s) == SelectSeq(s, LAMBDA c : c \in Whitelist)

sanitizePath(path) ==
    KeepWhitelist(DropDotSegments(CollapseSlashes(StripPctCtl(StripCtl(path)))))

(***************************************************************************)
(* new URL(req.url).pathname.slice(1): the URL parser reads a backslash as *)
(* a slash, percent-encodes control and non-ASCII bytes, the space and a   *)
(* few punctuation marks, and resolves dot segments.                       *)
(***************************************************************************)
\* what the parser makes of one character of the path of an https URL: a
\* backslash is a path separator, a character of the path percent-encode set
\* is encoded
PctEncodeChar(c) ==
    IF c = "\\" THEN <<"/">>
    ELSE IF c = "x01" THEN <<"%", "0", "1">>
    ELSE IF c = "xE9" THEN <<"%", "C", "3", "%", "A", "9">>
    ELSE IF c = " " THEN <<"%", "2", "0">>
    ELSE IF c = "\"" THEN <<"%", "2", "2">>
    ELSE IF c = "<" THEN <<"%", "3", "C">>
    ELSE IF c = ">" THEN <<"%", "3", "E">>
    ELSE IF c = "x60" THEN <<"%", "6", "0">>
    ELSE IF c = "{" THEN <<"%", "7", "B">>
    ELSE IF c = "}" THEN <<"%", "7", "D">>
    ELSE <<c>>

RECURSIVE PctEncode(_)
PctEncode(s) ==
    IF s = <<>> THEN <<>> ELSE PctEncodeChar(Head(s)) \o PctEncode(Tail(s))

SingleDotForms == {<<".">>, <<"%", "2", "e">>, <<"%", "2", "E">>}

IsSingleDot(seg) == seg \in SingleDotForms

IsDoubleDot(seg) == \E x \in SingleDotForms, y \in SingleDotForms : seg = x \o y

RECURSIVE ResolveDots(_, _)
\* the path state of the URL Standard: a double-dot segment removes the
\* segment before it, a single-dot segment is dropped, and either one as the
\* last segment leaves an empty last segment
ResolveDots(segs, acc) ==
    IF segs = <<>> THEN acc
    ELSE LET seg == Head(segs)
             last == Len(segs) = 1
             popped == IF acc = <<>> THEN acc ELSE SubSeq(acc, 1, Len(acc) - 1)
         IN  IF IsDoubleDot(seg)
             THEN ResolveDots(Tail(segs), IF last THEN Append(popped, <<>>) ELSE popped)
             ELSE IF IsSingleDot(seg)
             THEN ResolveDots(Tail(segs), IF last THEN Append(acc, <<>>) ELSE acc)
             ELSE ResolveDots(Tail(segs), Append(acc, seg))

\* C0 control bytes and the space, which the URL parser removes from both
\* ends of its input
C0OrSpace == {"x01", " "}

RECURSIVE StripTrailingC0(_)
\* the input of the parser ends with the path: what stands at its end goes
StripTrailingC0(p) ==
    IF p # <<>> /\ p[Len(p)] \in C0OrSpace
    THEN StripTrailingC0(SubSeq(p, 1, Len(p) - 1))
    ELSE p

\* the URL parsers a runtime can have: one that does what the URL Standard
\* says, and one (seen in node 20 with ada 2.9) that takes a path for already
\* normal after looking at its first "/." only
UrlParsers == {"standard", "fastpath"}

\* the position of the first "/." of p, 0 when there is none
FirstSlashDot(p) ==
    LET at == {i \in 1..(Len(p) - 1) : p[i] = "/" /\ p[i + 1] = "."}
    IN  IF at = {} THEN 0 ELSE CHOOSE i \in at : \A j \in at : i <= j

\* the shortcut of the "fastpath" parser: a path without any character to
\* encode, percent sign or backslash, that does not begin with a dot and
\* whose first "/." is followed by an ordinary character is kept as it is
SkipsDotSegments(p) ==
    /\ p # <<>>
    /\ \A i \in 1..Len(p) : PctEncodeChar(p[i]) = <<p[i]>> /\ p[i] \notin {"%", "\\"}
    /\ p[1] # "."
    /\ LET k == FirstSlashDot(p)
       IN  k # 0 /\ k + 2 <= Len(p) /\ p[k + 2] \notin {".", "/"}

\* url.pathname.slice(1) for a URL whose path, after the first slash, is p
pathname(p) ==
    LET stripped == StripTrailingC0(p)
    IN  IF urlParser = "fastpath" /\ SkipsDotSegments(stripped)
        THEN stripped
        ELSE Join(ResolveDots(Split(PctEncode(stripped)), <<>>))

StartsWith(s, prefix) ==
    Len(s) >= Len(prefix) /\ SubSeq(s, 1, Len(prefix)) = prefix

EndsWithSlash(s) == s # <<>> /\ s[Len(s)] = "/"

(***************************************************************************)
(* Usage limiter.  Byte counts are in GiB and times in hours.              *)
(***************************************************************************)
MAX_USAGE == 5

USAGE_WINDOW == 24

\* an optional value is a sequence of no or one element
Opt(f, k) == IF k \in DOMAIN f THEN <<f[k]>> ELSE <<>>

\* request.cf of the clients: "" stands for a missing (falsy) component
Clients == {[tls |-> "t1", asn |-> "as1"], [tls |-> "", asn |-> ""]}

getClientFingerprint(cf) ==
    <<IF cf.tls = "" THEN "unknown" ELSE cf.tls,
      IF cf.asn = "" THEN "unknown" ELSE cf.asn>>

fingerprintKey(cf) == <<"fp">> \o getClientFingerprint(cf)

trackCountsTwice(usageData, now, bytes) ==
    LET newUsage == IF usageData # <<>> /\ now - usageData[1].timestamp <= USAGE_WINDOW
                    THEN bytes + bytes + usageData[1].usage
                    ELSE bytes
    IN  [usage |-> newUsage, timestamp |-> now]

trackKeepsWindowStart(usageData, now, bytes) ==
    IF usageData # <<>> /\ now - usageData[1].timestamp <= USAGE_WINDOW
    THEN [usage |-> bytes + usageData[1].usage, timestamp |-> usageData[1].timestamp]
    ELSE [usage |-> bytes, timestamp |-> now]

\* the record trackFingerprintUsage puts, given what its get returned
trackFingerprintUsage(usageData, now, bytes) ==
    LET newUsage == IF usageData # <<>> /\ now - usageData[1].timestamp <= USAGE_WINDOW
                    THEN bytes + usageData[1].usage
                    ELSE bytes
    IN  [usage |-> newUsage, timestamp |-> now]

checkUsageOffByOne(usageData, now) ==
    IF usageData = <<>> THEN FALSE
    ELSE IF now - usageData[1].timestamp > USAGE_WINDOW THEN FALSE
    ELSE usageData[1].usage > MAX_USAGE

checkUsageNoExpiry(usageData, now) ==
    IF usageData = <<>> THEN FALSE
    ELSE usageData[1].usage >= MAX_USAGE

\* the result of checkFingerprintUsage, given what its get returned
checkFingerprintUsage(usageData, now) ==
    IF usageData = <<>> THEN FALSE
    ELSE IF now - usageData[1].timestamp > USAGE_WINDOW THEN FALSE
    ELSE usageData[1].usage >= MAX_USAGE

(***************************************************************************)
(* Host table and responses.                                               *)
(***************************************************************************)
ConfiguredHosts ==
    {"v2.openaddresses.io", "results.openaddresses.io", "data.openaddresses.io"}

\* one directive of a Cache-Control value: its name and, after "=", its
\* value.  A Cache-Control value is the sequence of its directives, and the
\* empty sequence stands for no value
Directive(name, value) == [name |-> name, value |-> value]

\* 'public, max-age=604800, immutable'
ResultsCacheControl ==
    <<Directive("public", ""), Directive("max-age", "604800"), Directive("immutable", "")>>

hostToBucketMapping ==
    [h \in ConfiguredHosts |->
        [s3_bucket |-> h,
         block_root |-> h \in {"v2.openaddresses.io", "data.openaddresses.io"},
         index_file |-> IF h = "results.openaddresses.io"
                        THEN <<"i","n","d","e","x",".","h","t","m","l">> ELSE <<>>,
         cache_control |-> IF h = "results.openaddresses.io"
                           THEN ResultsCacheControl ELSE <<>>]]

\* lower-case property names every object literal inherits from Object.prototype
InheritedKeys == {"constructor", "__proto__"}

\* hostToBucketMapping[hostName]: a JavaScript property read, which also finds
\* inherited properties; such a value is truthy and has none of the fields, so
\* its s3_bucket concatenates as "undefined"
LookupConfig(hostName) ==
    IF hostName \in DOMAIN hostToBucketMapping THEN <<hostToBucketMapping[hostName]>>
    ELSE IF hostName \in InheritedKeys
    THEN <<[s3_bucket |-> "undefined", block_root |-> FALSE,
            index_file |-> <<>>, cache_control |-> <<>>]>>
    ELSE <<>>

\* a response: status, body (a message or an object's bytes), Location, Cache-Control
Resp(status, msg, of, form, location, cc) ==
    [status |-> status, msg |-> msg, of |-> of, form |-> form,
     location |-> location, cc |-> cc]

TextResp(status, msg) == Resp(status, msg, <<>>, "text", <<>>, <<>>)

NoResp == TextResp(0, "")

\* Response.ok
IsOk(resp) == resp.status >= 200 /\ resp.status <= 299

\* a terminal outcome of the handler: the response, and whether the handler
\* schedules cache.put(cacheKey, resp.clone()) for it
Outcome(resp, cached) == [resp |-> resp, cached |-> cached]

InvalidRequest == Outcome(TextResp(400, "Invalid request"), TRUE)

RefererRequired == Outcome(TextResp(403, "Invalid request"), TRUE)

UnknownHost == Outcome(TextResp(404, "Unknown host"), TRUE)

BadRequest == Outcome(TextResp(400, "Bad Request"), TRUE)

MethodNotAllowed == Outcome(TextResp(405, "Method Not Allowed"), TRUE)

RateLimitedCached == Outcome(TextResp(429, "Download limit exceeded"), TRUE)

RateLimited == Outcome(TextResp(429, "Download limit exceeded"), FALSE)

ObjectNotFound(name) ==
    Outcome(Resp(404, "Object not found", name, "text", <<>>, <<>>), TRUE)

UpstreamTimeout ==
    Outcome(TextResp(504, "Upstream S3 fetch timed out after 20s"), TRUE)

\* an exception leaving the handler: the framework's error response
InternalError == Outcome(TextResp(500, "Internal Server Error"), FALSE)

\* no route matches the method: the framework's not-found response
RouterNotFound == Outcome(TextResp(404, "404 Not Found"), FALSE)

\* c.text('IP address not found', 400) of the first middleware
IpNotFound == Outcome(TextResp(400, "IP address not found"), FALSE)

R2PublicDomain == "https://r2.openaddresses.io"

\* values of the binding R2_OBJECT_PREFIX: not set, an origin, an origin
\* with a path.  The first element is the origin, the rest the path
EnvPrefixes ==
    { <<>>,
      <<"https://cdn.example">>,
      <<"https://cdn.example", "/", "b", "/">> }

\* env.R2_OBJECT_PREFIX || 'https://r2.openaddresses.io'
r2PublicDomain ==
    IF env.R2_OBJECT_PREFIX # <<>> THEN env.R2_OBJECT_PREFIX ELSE <<R2PublicDomain>>

\* `${r2PublicDomain}/${r2objectName}` as Response.redirect parses it: the
\* origin, and the path with its dot segments resolved
r2Url(r2objectName) ==
    LET path == Tail(r2PublicDomain) \o <<"/">> \o r2objectName
    IN  <<Head(r2PublicDomain), "/">> \o pathname(Tail(path))

\* part_000: Response.redirect of the object's public URL
RedirectToPublicUrl(target, r2objectName) ==
    Outcome(Resp(302, "", <<>>, "text", r2Url(r2objectName), <<>>), TRUE)

\* the origins that the URLs of redirect targets name
TargetOrigins == {"https://target.example"}

\* whether new URL(target), without a base, succeeds: the target begins with
\* a scheme and a host, which the model writes as one element
IsAbsoluteUrl(target) == target # <<>> /\ Head(target) \in TargetOrigins

\* new URL(target).href of an absolute target: the origin, and the path as
\* the parser normalises it, which is "/" when the target has none
href(target) ==
    <<Head(target), "/">>
        \o pathname(IF Len(target) >= 2 THEN Tail(Tail(target)) ELSE <<>>)

\* Response.redirect(target, 302): the target is parsed as a URL; one that
\* does not parse (a relative reference) makes the call throw, and the
\* handler ends with the framework's error response; otherwise Location is
\* the parsed URL written out again
RedirectTo(target, r2objectName) ==
    IF IsAbsoluteUrl(target)
    THEN Outcome(Resp(302, "", <<>>, "text", href(target), <<>>), TRUE)
    ELSE InternalError

(***************************************************************************)
(* The synchronous part of the handler between the cache lookup and the    *)
(* primary-store head: sanitizing, the block test, the access policy, the  *)
(* host lookup and the root policy.                                        *)
(***************************************************************************)
\* the test of the block: it reads s3objectName after the reassignment, that
\* is, the sanitizer's output
BlockTest(rawName, s3objectName) == HasCtl(s3objectName) \/ HasPctCtl(s3objectName)

RunsPrefix == <<"r", "u", "n", "s", "/">>

\* the referer rule, present in index.ts only
RefererPolicy(v, hostName, s3objectName, referer) ==
    /\ v = "index.ts"
    /\ hostName = "data.openaddresses.io"
    /\ StartsWith(s3objectName, RunsPrefix)
    /\ ~referer

\* the result of the part: a terminal outcome in out (or none), else the
\* object name and the storage key
Validate(v, hostName, path, method, referer) ==
    LET rawName == pathname(path)
        sanitized == sanitizePath(rawName)
        config == LookupConfig(hostName)
        stop(o) == [out |-> <<o>>, name |-> sanitized, key |-> <<>>, config |-> config]
    IN  IF BlockTest(rawName, sanitized) THEN stop(InvalidRequest)
        ELSE IF RefererPolicy(v, hostName, sanitized, referer) THEN stop(RefererRequired)
        ELSE IF config = <<>> THEN stop(UnknownHost)
        ELSE LET root == sanitized = <<>> \/ EndsWithSlash(sanitized)
                 name == IF root /\ config[1].index_file # <<>>
                         THEN sanitized \o config[1].index_file ELSE sanitized
                 r2objectName == <<config[1].s3_bucket, "/">> \o name
             IN  IF root /\ config[1].block_root THEN stop(BadRequest)
                 ELSE IF r2objectName = <<>> THEN stop(BadRequest)
                 ELSE IF method # "GET" THEN stop(MethodNotAllowed)
                 ELSE [out |-> <<>>, name |-> name, key |-> r2objectName,
                       config |-> config]

\* the path of the URL given to new Request for the origin:
\* /<s3_bucket>/<s3objectName>, normalised by the URL parser
OriginPath(bucket, name) == pathname(<<bucket, "/">> \o name)

(***************************************************************************)
(* The request pipeline: one step per stretch of code between two awaits. *)
(* The tasks a request hands to waitUntil settle at any later moment, and  *)
(* time passes at any moment.                                              *)
(***************************************************************************)
MaxReqs == 2

MaxClock == 25

\* how far the clock moves in one step (hours): past the window
TickSteps == {25}

Variants == {"index.ts", "part_000"}

Methods == {"GET", "HEAD", "POST"}

RootPath == <<>>

PlainPath == <<"a">>

RunsPath == <<"r", "u", "n", "s", "/", "a">>

\* request paths after the first slash: the root, a plain key, a directory,
\* a policy-gated key, a dot segment, an encoded control byte, a raw control
\* byte at the head, a space inside with a control byte at the end, a
\* segment that only the whitelist turns into "..", and a dot segment
\* between backslashes
RequestPaths ==
    { RootPath,
      PlainPath,
      <<"a", "/">>,
      RunsPath,
      <<".", ".", "/", "a">>,
      <<"%", "0", "a", "a">>,
      <<"x01", "a">>,
      <<"a", " ", "b", "x01">>,
      <<".", "@", ".", "/", "a">>,
      <<"b", "\\", ".", ".", "\\", "a">> }

Req(h, p, m, ip, referer, cl) ==
    [host |-> h, path |-> p, method |-> m, ip |-> ip, referer |-> referer, client |-> cl]

KnownClient == [tls |-> "t1", asn |-> "as1"]

\* the requests that arrive: every path on the index-file host, the root
\* and a policy-gated key (with and without referer) on a block-root host,
\* the hosts outside the table, the other methods, a second client, and a
\* request without client-address header
Requests ==
    {Req("results.openaddresses.io", p, "GET", TRUE, TRUE, KnownClient) : p \in RequestPaths}
    \cup {Req("data.openaddresses.io", RootPath, "GET", TRUE, TRUE, KnownClient)}
    \cup {Req("data.openaddresses.io", RunsPath, "GET", TRUE, referer, KnownClient) :
            referer \in BOOLEAN}
    \cup {Req("example.org", PlainPath, m, TRUE, TRUE, KnownClient) : m \in Methods}
    \cup {Req("constructor", PlainPath, "GET", TRUE, TRUE, KnownClient)}
    \cup {Req("results.openaddresses.io", PlainPath, m, TRUE, TRUE, KnownClient) :
            m \in Methods}
    \cup {Req("results.openaddresses.io", PlainPath, "GET", ip, TRUE, cl) :
            ip \in BOOLEAN, cl \in Clients}

\* content-length of an origin answer; NoLen: the header is absent
NoLen == -1

\* an absolute redirect target that the URL parser leaves as it is
RedirectTarget == <<"https://target.example", "/", "m", "o", "v", "e", "d">>

\* the values of x-amz-website-redirect-location: an absolute URL with a
\* path, an absolute URL without one, and a path on the same site
RedirectTargets ==
    { RedirectTarget,
      <<"https://target.example">>,
      <<"/", "m", "o", "v", "e", "d">> }

\* a Cache-Control value of an origin object that names one of the
\* directives the cache middleware adds
OriginCacheControl == <<Directive("max-age", "60")>>

\* an answer of the origin: status, content-length header,
\* x-amz-website-redirect-location header (empty when absent) and
\* Cache-Control header (empty when absent)
Answer(status, len, redirect, cc) ==
    [status |-> status, len |-> len, redirect |-> redirect, cc |-> cc]

\* what the origin can answer for a URL
OriginAnswers ==
    { Answer(404, NoLen, <<>>, <<>>),
      Answer(403, 1, <<>>, <<>>),
      Answer(200, NoLen, <<>>, <<>>),
      Answer(200, 1, <<>>, <<>>),
      Answer(200, 1, <<>>, OriginCacheControl) }
    \cup {Answer(200, 0, t, <<>>) : t \in RedirectTargets}

\* the path of the origin URL of the plain key on the index-file host
PlainUrl == <<"results.openaddresses.io", "/", "a">>

\* what the origin is taken to answer for the URL path url: every answer for
\* the plain key, and for the other keys absence, or an object with a
\* declared length with or without Cache-Control
AnswersFor(url) ==
    IF url = PlainUrl THEN OriginAnswers
    ELSE {a \in OriginAnswers : a.status = 404 \/ (a.status = 200 /\ a.len = 1)}

IdleRq ==
    [pc |-> "idle", id |-> 0, host |-> "", path |-> <<>>, method |-> "", ip |-> FALSE,
     referer |-> FALSE, client |-> [tls |-> "", asn |-> ""],
     name |-> <<>>, key |-> <<>>, config |-> <<>>,
     trace |-> <<>>, src |-> "", resp |-> NoResp,
     head |-> <<>>, saw |-> <<>>, sawAt |-> 0, got |-> <<>>,
     s3 |-> <<>>, slow |-> FALSE, timer |-> "none"]

\* req.url: the URL as the parser normalised it
Url(r) == <<r.host, pathname(r.path)>>

\* the response leaves through the cache middleware, which stores it when ok
ThroughMiddleware(src) == src \notin {"ip-middleware", "mw-cache"}

\* cache.put(key, resp) of a request whose method is not GET is rejected
EdgePut(r, o) ==
    IF o.cached /\ r.method = "GET"
    THEN {[id |-> r.id, key |-> Url(r), resp |-> o.resp]} ELSE {}

\* cacheControl of the cache middleware: 'public, max-age=3600'
MwCacheControl == <<Directive("public", ""), Directive("max-age", "3600")>>

\* addHeader of the cache middleware: the names of the directives the
\* response's Cache-Control has are collected first, and then each directive
\* of the middleware's cacheControl whose name is not among them is appended
addHeader(resp) ==
    LET existingDirectives == {resp.cc[i].name : i \in DOMAIN resp.cc}
        missing == SelectSeq(MwCacheControl, LAMBDA d : d.name \notin existingDirectives)
    IN  [resp EXCEPT !.cc = @ \o missing]

\* the response as it leaves: the middleware, after next(), adds its header
\* to an ok response
Outgoing(o, src) ==
    IF ThroughMiddleware(src) /\ IsOk(o.resp) THEN addHeader(o.resp) ELSE o.resp

\* the middleware after next(): if (!c.res.ok) return; addHeader;
\* cache.put(key, c.res.clone())
MwPut(r, o, src) ==
    IF ThroughMiddleware(src) /\ IsOk(o.resp)
    THEN {[id |-> r.id, key |-> Url(r), resp |-> Outgoing(o, src)]} ELSE {}

\* the request r ends with outcome o produced by src
Finish(r, o, src) ==
    /\ rq' = [r EXCEPT !.pc = "done", !.resp = Outgoing(o, src), !.src = src]
    /\ cachePuts' = cachePuts \cup EdgePut(r, o)
    /\ mwPuts' = mwPuts \cup MwPut(r, o, src)

\* a request arrives: the client-address middleware, and the cache
\* middleware up to its await of cache.match
Begin(q) ==
    /\ nreq < MaxReqs
    /\ nreq' = nreq + 1
    /\ LET r == [IdleRq EXCEPT !.id = nreq + 1, !.host = q.host, !.path = q.path,
                               !.method = q.method, !.ip = q.ip,
                               !.referer = q.referer, !.client = q.client]
       IN  IF ~q.ip THEN Finish(r, IpNotFound, "ip-middleware")
           ELSE /\ rq' = [r EXCEPT !.pc = "mw-match"]
                /\ UNCHANGED <<cachePuts, mwPuts>>
    /\ UNCHANGED <<variant, clock, ledger, r2, origin, edgeCache, mwCache, r2Puts>>
    /\ UNCHANGED <<env, urlParser, sanVars, useVars>>

\* the cache middleware resumes with the result of its cache.match; on a
\* miss the router runs, and the handler up to its await of cache.match
MwMatch ==
    /\ rq.pc = "mw-match"
    /\ IF Url(rq) \in DOMAIN mwCache
       THEN Finish(rq, Outcome(mwCache[Url(rq)], FALSE), "mw-cache")
       ELSE IF rq.method \notin {"GET", "HEAD"} THEN Finish(rq, RouterNotFound, "router")
       ELSE /\ rq' = [rq EXCEPT !.pc = "edge-match"]
            /\ UNCHANGED <<cachePuts, mwPuts>>
    /\ UNCHANGED <<variant, nreq, clock, ledger, r2, origin, edgeCache, mwCache, r2Puts>>
    /\ UNCHANGED <<env, urlParser, sanVars, useVars, parked>>

\* the handler resumes with the result of cache.match(cacheKey); on a miss
\* the synchronous checks run, up to the await of R2.head
EdgeMatch ==
    /\ rq.pc = "edge-match"
    /\ LET v == Validate(variant, rq.host, rq.path, rq.method, rq.referer)
       IN  IF rq.method = "GET" /\ Url(rq) \in DOMAIN edgeCache
           THEN Finish(rq, Outcome(edgeCache[Url(rq)], FALSE), "edge-cache")
           ELSE IF v.out # <<>>
           THEN Finish([rq EXCEPT !.name = v.name, !.config = v.config], v.out[1], "handler")
           ELSE /\ rq' = [rq EXCEPT !.pc = "head", !.name = v.name, !.key = v.key,
                                    !.config = v.config]
                /\ UNCHANGED <<cachePuts, mwPuts>>
    /\ UNCHANGED <<variant, nreq, clock, ledger, r2, origin, edgeCache, mwCache, r2Puts>>
    /\ UNCHANGED <<env, urlParser, sanVars, useVars, parked>>

\* a request arrives while no other one is in flight
Start(q) ==
    /\ rq.pc \in {"idle", "done"}
    /\ Begin(q)
    /\ UNCHANGED parked

\* the Cache-Control of a response whose headers carry the value cc when
\* the handler has run: if (config.cache_control)
\* headers.set('cache-control', config.cache_control)
CacheControlHeader(cc, config) ==
    IF config.cache_control # <<>> THEN config.cache_control ELSE cc

ObjectRespNoBody(status, obj, cc) == Resp(status, "object", <<>>, obj.form, <<>>, cc)

\* new Response(body, init): the bytes of obj as body; of the headers that
\* init carries the model follows Cache-Control, the one that the handler
\* and the cache middleware write
ObjectResp(status, obj, cc) == Resp(status, "object", obj.of, obj.form, <<>>, cc)

\* env.R2.head(r2objectName) and, on a hit, the redirect stored as metadata
HeadObject ==
    /\ rq.pc = "head"
    /\ LET objHeadResp == Opt(r2, rq.key)
           r == [rq EXCEPT !.head = <<objHeadResp>>, !.trace = Append(@, "r2.head")]
       IN  IF objHeadResp = <<>>
           THEN /\ rq' = [r EXCEPT !.pc = "check"]
                /\ UNCHANGED <<cachePuts, mwPuts>>
           ELSE IF objHeadResp[1].redirect # <<>>
           THEN Finish(r, RedirectTo(objHeadResp[1].redirect, rq.key), "handler")
           ELSE IF variant = "index.ts"
           THEN /\ rq' = [r EXCEPT !.pc = "get"]
                /\ UNCHANGED <<cachePuts, mwPuts>>
           ELSE Finish(r, RedirectToPublicUrl(objHeadResp[1].redirect, rq.key), "handler")
    /\ UNCHANGED <<variant, nreq, clock, ledger, r2, origin, edgeCache, mwCache, r2Puts>>
    /\ UNCHANGED <<env, urlParser, sanVars, useVars, parked>>

\* index.ts: env.R2.get(r2objectName) and the response built from it:
\* obj.writeHttpMetadata(headers) writes the Cache-Control stored with the
\* object, and the bucket's cache_control, when set, replaces it
Get ==
    /\ rq.pc = "get"
    /\ rq.key \in DOMAIN r2
    /\ LET obj == r2[rq.key]
           written == obj.httpMetadata.cacheControl
       IN  Finish([rq EXCEPT !.trace = Append(@, "r2.get")],
                  Outcome(ObjectResp(200, obj, CacheControlHeader(written, rq.config[1])),
                          TRUE),
                  "handler")
    /\ UNCHANGED <<variant, nreq, clock, ledger, r2, origin, edgeCache, mwCache, r2Puts>>
    /\ UNCHANGED <<env, urlParser, sanVars, useVars, parked>>

\* the miss branch: checkFingerprintUsage up to its await of OA_USAGE.get
CheckGet ==
    /\ rq.pc = "check"
    /\ rq' = [rq EXCEPT !.pc = "checking",
                        !.saw = <<Opt(ledger, fingerprintKey(rq.client))>>,
                        !.trace = Append(@, "kv.get")]
    /\ UNCHANGED <<variant, nreq, clock, ledger, r2, origin, edgeCache, mwCache,
                   r2Puts, cachePuts, mwPuts>>
    /\ UNCHANGED <<env, urlParser, sanVars, useVars, parked>>

\* checkFingerprintUsage from its resumption: Date.now() and the result,
\* then the 429, or (part_000) the abort timer and the request to sign, up to
\* the await of aws.sign
Check ==
    /\ rq.pc = "checking"
    /\ LET usageData == rq.saw[1]
           r == [rq EXCEPT !.sawAt = clock]
       IN  IF checkFingerprintUsage(usageData, clock)
           THEN Finish(r, RateLimited, "handler")
           ELSE /\ rq' = [r EXCEPT !.pc = "sign",
                                   !.timer = IF variant = "part_000" THEN "armed" ELSE "none"]
                /\ UNCHANGED <<cachePuts, mwPuts>>
    /\ UNCHANGED <<variant, nreq, clock, ledger, r2, origin, edgeCache, mwCache, r2Puts>>
    /\ UNCHANGED <<env, urlParser, sanVars, useVars, parked>>

\* how the one origin body reaches the write-back and the client:
\* index.ts buffers it with text() when the length is unknown and tees it
\* otherwise; part_000 hands the same stream to both
BodyForm(v, answer) ==
    IF v = "index.ts" THEN (IF answer.len = NoLen THEN "text" ELSE "tee")
    ELSE "stream"

\* the answers that the origin is taken to give after more than 20 seconds
LateAnswers ==
    {a \in OriginAnswers : a.status = 404 \/ (a.status = 200 /\ a.len = 1)}

\* bodies the origin can serve: plain text, and bytes that are not UTF-8
OriginBodies == {<<"a">>, <<"xE9", "a">>}

\* await s3Object.text() and the re-encoding of the string by R2.put and
\* new Response: a byte that is not valid UTF-8 comes back as U+FFFD
Utf8RoundTrip(bytes) ==
    [i \in 1..Len(bytes) |-> IF bytes[i] = "xE9" THEN "xFFFD" ELSE bytes[i]]

\* all the ways to leave out bytes of a body
RECURSIVE SubSequences(_)
SubSequences(bytes) ==
    IF bytes = <<>> THEN {<<>>}
    ELSE LET rest == SubSequences(Tail(bytes))
         IN  rest \cup {<<Head(bytes)>> \o t : t \in rest}

\* what a consumer can receive of the origin's bytes: a branch of tee() has
\* them all, text() gives the decoded string, a stream with one reader has
\* them all, and of two readers of one stream each gets what the other left
Delivered(form, bytes) ==
    IF form = "text" THEN {Utf8RoundTrip(bytes)}
    ELSE IF form = "contended" THEN SubSequences(bytes)
    ELSE {bytes}

TracksAlways(v, answer) == TRUE

\* whether the handler calls trackFingerprintUsage for this origin answer
TracksUsage(v, answer) ==
    IF v = "index.ts" THEN answer.len # NoLen
    ELSE (IF answer.len = NoLen THEN 0 ELSE answer.len) > 0

\* whether the handler arms a timer that aborts the signal given to
\* requestToSign after 20 seconds
AbortsSlowFetch(v) == v = "part_000"

\* clearTimeout(timeoutId) of the finally block
ClearTimeout(timer) == IF timer = "armed" THEN "cleared" ELSE timer

\* the handler resumes with the result of aws.sign: a rejection leaves the
\* handler as an error (part_000 rethrows it after clearing the timer), and
\* with a signed request the fetch is issued, up to its await
Sign ==
    /\ rq.pc = "sign"
    /\ \/ Finish([rq EXCEPT !.timer = ClearTimeout(@)], InternalError, "handler")
       \/ /\ rq' = [rq EXCEPT !.pc = "fetch", !.trace = Append(@, "fetch")]
          /\ UNCHANGED <<cachePuts, mwPuts>>
    /\ UNCHANGED <<variant, nreq, clock, ledger, r2, origin, edgeCache, mwCache, r2Puts>>
    /\ UNCHANGED <<env, urlParser, sanVars, useVars, parked>>

\* the handler resumes with the result of fetch(signedRequest)
Fetch ==
    /\ rq.pc = "fetch"
    /\ LET url == OriginPath(rq.config[1].s3_bucket, rq.name)
           r == [rq EXCEPT !.timer = ClearTimeout(@)]
       IN  \/ \* the transport fails: the error is rethrown
              /\ Finish(r, InternalError, "handler")
              /\ UNCHANGED origin
           \/ \* no answer within 20 seconds, and the request that aws.sign
              \* returned carries the signal: the fetch is aborted
              /\ AbortsSlowFetch(variant)
              /\ Finish([r EXCEPT !.slow = TRUE], UpstreamTimeout, "handler")
              /\ UNCHANGED origin
           \/ \* the origin answers, in time or late: late without a timer,
              \* and late with a timer when aws.sign returned a request
              \* built from method, url and headers, without the signal
              \E a \in AnswersFor(url), slow \in BOOLEAN :
                 /\ slow => a \in LateAnswers
                 /\ url \in DOMAIN origin => a = origin[url]
                 /\ origin' = (url :> a) @@ origin
                 /\ IF a.status = 404
                    THEN Finish([r EXCEPT !.slow = slow, !.s3 = <<a>>],
                                ObjectNotFound(rq.name), "handler")
                    ELSE /\ rq' = [r EXCEPT !.slow = slow, !.s3 = <<a>>,
                                            !.pc = IF TracksUsage(variant, a)
                                                   THEN "track" ELSE "respond"]
                         /\ UNCHANGED <<cachePuts, mwPuts>>
    /\ UNCHANGED <<variant, nreq, clock, ledger, r2, edgeCache, mwCache, r2Puts>>
    /\ UNCHANGED <<env, urlParser, sanVars, useVars, parked>>

\* trackFingerprintUsage(env, req.raw, contentLength) up to its await of
\* OA_USAGE.get
TrackGet ==
    /\ rq.pc = "track"
    /\ rq' = [rq EXCEPT !.pc = "tracking",
                        !.got = <<Opt(ledger, fingerprintKey(rq.client))>>,
                        !.trace = Append(@, "kv.get")]
    /\ UNCHANGED <<variant, nreq, clock, ledger, r2, origin, edgeCache, mwCache,
                   r2Puts, cachePuts, mwPuts>>
    /\ UNCHANGED <<env, urlParser, sanVars, useVars, parked>>

\* trackFingerprintUsage from Date.now() to its OA_USAGE.put
Track ==
    /\ rq.pc = "tracking"
    /\ LET k == fingerprintKey(rq.client)
       IN  ledger' = (k :> trackFingerprintUsage(rq.got[1], clock, rq.s3[1].len))
                         @@ ledger
    /\ rq' = [rq EXCEPT !.pc = "respond", !.trace = Append(@, "kv.put")]
    /\ UNCHANGED <<variant, nreq, clock, r2, origin, edgeCache, mwCache,
                   r2Puts, cachePuts, mwPuts>>
    /\ UNCHANGED <<env, urlParser, sanVars, useVars, parked>>

\* httpMetadata: s3Object.headers, of which the primary store keeps the
\* ones it knows; the model follows Cache-Control
HttpMetadata(answer) == [cacheControl |-> answer.cc]

\* waitUntil(env.R2.put(...)), then the redirect or the object response:
\* new Response(body, s3Object) has the status and the headers of the
\* origin's answer, and the bucket's cache_control, when set, replaces its
\* Cache-Control
Respond ==
    /\ rq.pc = "respond"
    /\ LET a == rq.s3[1]
           url == OriginPath(rq.config[1].s3_bucket, rq.name)
           form == BodyForm(variant, a)
           put(f) == [id |-> rq.id, key |-> rq.key,
                      obj |-> [of |-> url, form |-> f, redirect |-> a.redirect,
                               httpMetadata |-> HttpMetadata(a)]]
           r == [rq EXCEPT !.trace = Append(@, "r2.put")]
           cc == CacheControlHeader(a.cc, rq.config[1])
       IN  IF a.redirect # <<>>
           THEN /\ r2Puts' = r2Puts \cup {put(form)}
                /\ Finish(r, RedirectTo(a.redirect, rq.key), "handler")
           ELSE IF form # "stream"
           THEN /\ r2Puts' = r2Puts \cup {put(form)}
                /\ Finish(r, Outcome(ObjectResp(a.status, [of |-> url, form |-> form], cc),
                                     TRUE), "handler")
           ELSE \* one stream, already given to R2.put, is given to new Response:
                \* the constructor throws, or both readers contend for the bytes
                \/ /\ r2Puts' = r2Puts \cup {put("stream")}
                   /\ Finish(r, InternalError, "handler")
                \/ /\ r2Puts' = r2Puts \cup {put("contended")}
                   /\ Finish(r, Outcome(ObjectResp(a.status,
                                            [of |-> url, form |-> "contended"], cc),
                                        TRUE), "handler")
    /\ UNCHANGED <<variant, nreq, clock, ledger, r2, origin, edgeCache, mwCache>>
    /\ UNCHANGED <<env, urlParser, sanVars, useVars, parked>>

R2PutFailSurfaces(t) ==
    /\ t \in r2Puts
    /\ rq.pc \in {"idle", "done", "head", "get"}
    /\ r2Puts' = r2Puts \ {t}
    /\ rq' = IF rq.id = t.id THEN [rq EXCEPT !.resp = InternalError.resp] ELSE rq
    /\ UNCHANGED <<variant, nreq, clock, ledger, r2, origin, edgeCache, mwCache,
                   cachePuts, mwPuts>>
    /\ UNCHANGED <<env, urlParser, sanVars, useVars, parked>>

\* a write-back settles: the object is stored.  A settle commutes with the
\* handler steps that do not read the store it writes, so it is taken only
\* where the next step of the running handler can read that store, or
\* where no handler runs
R2PutSettle(t) ==
    /\ t \in r2Puts
    /\ rq.pc \in {"idle", "done", "head", "get"}
    /\ r2Puts' = r2Puts \ {t}
    /\ r2' = (t.key :> t.obj) @@ r2
    /\ UNCHANGED <<variant, rq, nreq, clock, ledger, origin, edgeCache, mwCache,
                   cachePuts, mwPuts>>
    /\ UNCHANGED <<env, urlParser, sanVars, useVars, parked>>

\* a write-back is rejected: nothing observes the promise but waitUntil
R2PutFail(t) ==
    /\ t \in r2Puts
    /\ rq.pc \in {"idle", "done", "head", "get"}
    /\ r2Puts' = r2Puts \ {t}
    /\ UNCHANGED <<variant, rq, nreq, clock, ledger, r2, origin, edgeCache, mwCache,
                   cachePuts, mwPuts>>
    /\ UNCHANGED <<env, urlParser, sanVars, useVars, parked>>

\* a cache.put of the handler settles
CachePutSettle(t) ==
    /\ t \in cachePuts
    /\ rq.pc \in {"idle", "done", "edge-match"}
    /\ cachePuts' = cachePuts \ {t}
    /\ edgeCache' = (t.key :> t.resp) @@ edgeCache
    /\ UNCHANGED <<variant, rq, nreq, clock, ledger, r2, origin, mwCache, r2Puts, mwPuts>>
    /\ UNCHANGED <<env, urlParser, sanVars, useVars, parked>>

\* a cache.put of the cache middleware settles
MwPutSettle(t) ==
    /\ t \in mwPuts
    /\ rq.pc \in {"idle", "done", "mw-match"}
    /\ mwPuts' = mwPuts \ {t}
    /\ mwCache' = (t.key :> t.resp) @@ mwCache
    /\ UNCHANGED <<variant, rq, nreq, clock, ledger, r2, origin, edgeCache, r2Puts,
                   cachePuts>>
    /\ UNCHANGED <<env, urlParser, sanVars, useVars, parked>>

\* time passes, between two requests or while requests wait at an await
Tick(d) ==
    /\ \/ nreq < MaxReqs
       \/ rq.pc \notin {"idle", "done"}
       \/ (parked # <<>> /\ parked[1].pc # "done")
    /\ clock + d <= MaxClock
    /\ clock' = clock + d
    /\ UNCHANGED <<variant, rq, nreq, ledger, storeVars>>
    /\ UNCHANGED <<env, urlParser, sanVars, useVars, parked>>

EmptyFn == [x \in {} |-> x]

\* the ledger before the first request: one client just under or at the
\* limit in a window that started at time 0, the other clients unknown
InitLedgers ==
    {fingerprintKey(KnownClient) :> [usage |-> u, timestamp |-> 0] :
        u \in {MAX_USAGE - 1, MAX_USAGE}}

SanIdle == sIn = <<>> /\ sOut = <<>> /\ sPc = "off"

UseIdle == uPc = EmptyFn /\ uArg = EmptyFn /\ uLog = <<>>

PipeIdle ==
    /\ variant = "index.ts"
    /\ env = [R2_OBJECT_PREFIX |-> <<>>]
    /\ urlParser = "standard"
    /\ rq = IdleRq
    /\ nreq = 0
    /\ parked = <<>>
    /\ r2 = EmptyFn /\ origin = EmptyFn /\ edgeCache = EmptyFn /\ mwCache = EmptyFn
    /\ r2Puts = {} /\ cachePuts = {} /\ mwPuts = {}

Init ==
    /\ variant \in Variants
    /\ env \in {[R2_OBJECT_PREFIX |-> p] :
                  p \in IF variant = "part_000" THEN EnvPrefixes ELSE {<<>>}}
    /\ urlParser \in IF env.R2_OBJECT_PREFIX = <<>> THEN UrlParsers ELSE {"standard"}
    /\ clock = 0
    /\ ledger \in InitLedgers
    /\ rq = IdleRq
    /\ nreq = 0
    /\ parked = <<>>
    /\ r2 = EmptyFn /\ origin = EmptyFn /\ edgeCache = EmptyFn /\ mwCache = EmptyFn
    /\ r2Puts = {} /\ cachePuts = {} /\ mwPuts = {}
    /\ SanIdle
    /\ UseIdle

\* the requests sent to a deployment whose R2_OBJECT_PREFIX is set: the ones
\* whose keys show how the public URL is built from the prefix
PrefixRequests ==
    {Req("results.openaddresses.io", p, "GET", TRUE, TRUE, KnownClient) :
        p \in {RootPath, PlainPath, <<".", "@", ".", "/", "a">>}}

\* the requests sent to a runtime whose URL parser takes the shortcut: a
\* plain key, and a path whose dot segments the shortcut leaves in place
FastpathRequests ==
    {Req("results.openaddresses.io", p, "GET", TRUE, TRUE, KnownClient) :
        p \in {PlainPath, <<"b", "/", ".", "a", "/", ".", ".", "/", "c">>}}

\* the requests that follow another one: those that can meet what an earlier
\* request left behind, by the same URL (also under another spelling or
\* method, or without client-address header), the same key, the same
\* policy-gated key or the same client
FollowUps ==
    {Req("results.openaddresses.io", p, "GET", TRUE, TRUE, KnownClient) :
        p \in {RootPath, PlainPath, <<".", ".", "/", "a">>}}
    \cup {Req("data.openaddresses.io", RunsPath, "GET", TRUE, referer, KnownClient) :
            referer \in BOOLEAN}
    \cup {Req("results.openaddresses.io", PlainPath, m, TRUE, TRUE, KnownClient) :
            m \in Methods}
    \cup {Req("results.openaddresses.io", PlainPath, "GET", ip, TRUE, cl) :
            ip \in BOOLEAN, cl \in Clients}

\* the requests sent to a deployment with the bindings e and the parser u
\* after n earlier requests
RequestsUnder(e, u, n) ==
    IF u = "fastpath" THEN FastpathRequests
    ELSE IF e.R2_OBJECT_PREFIX # <<>> THEN PrefixRequests
    ELSE IF n = 0 THEN Requests
    ELSE FollowUps

Next ==
    \/ \E q \in RequestsUnder(env, urlParser, nreq) : Start(q)
    \/ MwMatch
    \/ EdgeMatch
    \/ HeadObject
    \/ Get
    \/ CheckGet
    \/ Check
    \/ Sign
    \/ Fetch
    \/ TrackGet
    \/ Track
    \/ Respond
    \/ \E t \in r2Puts : R2PutSettle(t)
    \/ \E t \in r2Puts : R2PutFail(t)
    \/ \E t \in cachePuts : CachePutSettle(t)
    \/ \E t \in mwPuts : MwPutSettle(t)
    \/ \E d \in TickSteps : Tick(d)

Spec == Init /\ [][Next]_vars

(***************************************************************************)
(* Two requests in flight.  The runtime runs one handler at a time and may *)
(* switch to another request at every await; rq is the request that runs   *)
(* and parked the one that waits.                                          *)
(***************************************************************************)
\* the requests that race: the same URL, from the same or another client
ConcurrentRequests ==
    {Req("results.openaddresses.io", PlainPath, "GET", TRUE, TRUE, cl) : cl \in Clients}

\* a request arrives while another one is suspended at an await
Arrive(q) ==
    /\ rq.pc \notin {"idle", "done"}
    /\ parked = <<>>
    /\ parked' = <<rq>>
    /\ Begin(q)

\* the running request is suspended at its await and the other one resumes
Switch ==
    /\ parked # <<>>
    /\ parked[1].pc # "done"
    /\ rq' = parked[1]
    /\ parked' = <<rq>>
    /\ UNCHANGED <<variant, env, urlParser, nreq, clock, ledger, storeVars, sanVars, useVars>>

\* the races are run on a deployment without prefix and with the standard
\* parser: neither changes what the racing requests do
ConcurrentUnder(e, u) ==
    IF e.R2_OBJECT_PREFIX = <<>> /\ u = "standard" THEN ConcurrentRequests ELSE {}

NextConcurrent ==
    \/ \E q \in ConcurrentUnder(env, urlParser) : Start(q)
    \/ \E q \in ConcurrentUnder(env, urlParser) : Arrive(q)
    \/ Switch
    \/ MwMatch
    \/ EdgeMatch
    \/ HeadObject
    \/ Get
    \/ CheckGet
    \/ Check
    \/ Sign
    \/ Fetch
    \/ TrackGet
    \/ Track
    \/ Respond
    \/ \E t \in r2Puts : R2PutSettle(t)
    \/ \E t \in r2Puts : R2PutFail(t)
    \/ \E t \in cachePuts : CachePutSettle(t)
    \/ \E t \in mwPuts : MwPutSettle(t)
    \/ \E d \in TickSteps : Tick(d)

SpecConcurrent == Init /\ [][NextConcurrent]_vars

(***************************************************************************)
(* Limiter harness: callers run trackFingerprintUsage (its ledger get and  *)
(* its ledger put are separate steps) and checkFingerprintUsage against    *)
(* one ledger while the clock moves.                                       *)
(***************************************************************************)
NCallers == 2

MaxCalls == 3

UsageTickSteps == {12, 13}

TrackSizes == {1, MAX_USAGE, MAX_USAGE + 1}

Callers == 1..NCallers

CallsStarted == Len(uLog) + Cardinality({c \in Callers : uPc[c] # "idle"})

InitUsage ==
    /\ clock = 0
    /\ ledger = EmptyFn
    /\ uPc = [c \in Callers |-> "idle"]
    /\ uArg = [c \in Callers |-> [fp |-> <<>>, bytes |-> 0, read |-> <<>>, began |-> 0]]
    /\ uLog = <<>>
    /\ PipeIdle
    /\ SanIdle

\* trackFingerprintUsage up to its await of OA_USAGE.get
UTrackGet(c, cl, bytes) ==
    /\ uPc[c] = "idle"
    /\ CallsStarted < MaxCalls
    /\ uPc' = [uPc EXCEPT ![c] = "got"]
    /\ uArg' = [uArg EXCEPT ![c] = [fp |-> fingerprintKey(cl), bytes |-> bytes,
                                    read |-> Opt(ledger, fingerprintKey(cl)),
                                    began |-> Len(uLog)]]
    /\ UNCHANGED <<clock, ledger, uLog, storeVars, pipeVars, sanVars>>

\* trackFingerprintUsage from Date.now() to its OA_USAGE.put
UTrackPut(c) ==
    /\ uPc[c] = "got"
    /\ ledger' = (uArg[c].fp :> trackFingerprintUsage(uArg[c].read, clock, uArg[c].bytes))
                     @@ ledger
    /\ uLog' = Append(uLog, [op |-> "track", fp |-> uArg[c].fp, bytes |-> uArg[c].bytes,
                             at |-> clock, exceeded |-> FALSE, began |-> uArg[c].began])
    /\ uPc' = [uPc EXCEPT ![c] = "idle"]
    /\ UNCHANGED <<clock, uArg, storeVars, pipeVars, sanVars>>

\* checkFingerprintUsage up to its await of OA_USAGE.get
UCheckGet(c, cl) ==
    /\ uPc[c] = "idle"
    /\ CallsStarted < MaxCalls
    /\ uPc' = [uPc EXCEPT ![c] = "checking"]
    /\ uArg' = [uArg EXCEPT ![c] = [fp |-> fingerprintKey(cl), bytes |-> 0,
                                    read |-> Opt(ledger, fingerprintKey(cl)),
                                    began |-> Len(uLog)]]
    /\ UNCHANGED <<clock, ledger, uLog, storeVars, pipeVars, sanVars>>

\* checkFingerprintUsage from its resumption: Date.now() and the result
UCheck(c) ==
    /\ uPc[c] = "checking"
    /\ uLog' = Append(uLog, [op |-> "check", fp |-> uArg[c].fp, bytes |-> 0,
                             at |-> clock,
                             exceeded |-> checkFingerprintUsage(uArg[c].read, clock),
                             began |-> uArg[c].began])
    /\ uPc' = [uPc EXCEPT ![c] = "idle"]
    /\ UNCHANGED <<clock, ledger, uArg, storeVars, pipeVars, sanVars>>

UTick(d) ==
    /\ clock + d <= MaxClock
    /\ clock' = clock + d
    /\ UNCHANGED <<ledger, useVars, storeVars, pipeVars, sanVars>>

NextUsage ==
    \/ \E c \in Callers, cl \in Clients, bytes \in TrackSizes : UTrackGet(c, cl, bytes)
    \/ \E c \in Callers : UTrackPut(c)
    \/ \E c \in Callers, cl \in Clients : UCheckGet(c, cl)
    \/ \E c \in Callers : UCheck(c)
    \/ \E d \in UsageTickSteps : UTick(d)

SpecUsage == InitUsage /\ [][NextUsage]_vars

(***************************************************************************)
(* Bounded strings for the sanitizer harness.                              *)
(***************************************************************************)
MaxLen == 4

Alphabet == {"a", ".", "/", "@", "%", "0", "x01"}

RECURSIVE StringsUpTo(_)
StringsUpTo(n) ==
    IF n = 0 THEN {<<>>}
    ELSE LET shorter == StringsUpTo(n - 1)
         IN  shorter \cup {Append(s, c) : s \in {t \in shorter : Len(t) = n - 1},
                                          c \in Alphabet}

InitSanitize ==
    /\ sIn \in StringsUpTo(MaxLen)
    /\ sOut = <<>>
    /\ sPc = "new"
    /\ clock = 0
    /\ ledger = EmptyFn
    /\ PipeIdle
    /\ UseIdle

\* one call sanitizePath(input)
SanitizeCall ==
    /\ sPc = "new"
    /\ sOut' = sanitizePath(sIn)
    /\ sPc' = "once"
    /\ UNCHANGED <<sIn, clock, ledger, storeVars, pipeVars, useVars>>

\* a second call on the result of the first
SanitizeAgain ==
    /\ sPc = "once"
    /\ sOut' = sanitizePath(sOut)
    /\ sPc' = "twice"
    /\ UNCHANGED <<sIn, clock, ledger, storeVars, pipeVars, useVars>>

NextSanitize == SanitizeCall \/ SanitizeAgain

SpecSanitize == InitSanitize /\ [][NextSanitize]_vars

(***************************************************************************)
(* Properties.                                                             *)
(***************************************************************************)
Range(f) == {f[i] : i \in DOMAIN f}

HasDotSegment(s) == \E i \in DOMAIN Split(s) : Split(s)[i] \in {<<".">>, <<".", ".">>}

HasDoubledSlash(s) == \E i \in 1..(Len(s) - 1) : s[i] = "/" /\ s[i + 1] = "/"

FromCache(r) == r.src \in {"mw-cache", "edge-cache"}

\* the request has got the results of its cache lookups
PastLookups(r) == r.pc \notin {"idle", "mw-match", "edge-match"}

\* the ledger entry e (as read) shows usage at or over the limit in a window
\* that has not expired at time now
OverLimit(e, now) ==
    e # <<>> /\ now - e[1].timestamp <= USAGE_WINDOW /\ e[1].usage >= MAX_USAGE

\* C1: a GET with client-address header that misses the caches and whose
\* path holds a "." or ".." segment, a percent-encoded control byte or a raw
\* control or non-ASCII byte ends with 400 and never goes on to the stores.
C1_UnsafePathRejected ==
    ( /\ PastLookups(rq)
      /\ rq.ip
      /\ rq.method = "GET"
      /\ ~FromCache(rq)
      /\ HasDotSegment(rq.path) \/ HasPctCtl(rq.path) \/ HasCtl(rq.path) )
    => (rq.pc = "done" /\ rq.resp.status = 400 /\ rq.trace = <<>>)

\* C2: the output of sanitizePath holds no "." or ".." segment, no doubled
\* slash, no control or non-ASCII byte and no percent-encoded control form.
C2_SanitizedKeyClean ==
    sPc \in {"once", "twice"}
    => ( /\ ~HasDotSegment(sOut)
         /\ ~HasDoubledSlash(sOut)
         /\ ~HasCtl(sOut)
         /\ ~HasPctCtl(sOut) )

\* C3: the limiter is consulted only after a head miss and before any origin
\* fetch, and when the entry it read shows usage at or over the limit in a
\* window that has not expired at the time it reads the clock, the request
\* ends with 429 having done nothing but the head and that one ledger read:
\* no fetch, no ledger write, no write-back.
C3_RateLimitShortCircuits ==
    /\ rq.saw # <<>>
         => (rq.head = << <<>> >> /\ SubSeq(rq.trace, 1, 2) = <<"r2.head", "kv.get">>)
    /\ "fetch" \in Range(rq.trace)
         => (rq.saw # <<>> /\ rq.trace[3] = "fetch")
    /\ (rq.saw # <<>> /\ rq.pc # "checking" /\ OverLimit(rq.saw[1], rq.sawAt))
         => ( /\ rq.pc = "done"
              /\ rq.resp.status = 429
              /\ rq.trace = <<"r2.head", "kv.get">>
              /\ \A t \in r2Puts : t.id # rq.id )

C3_Witness ==
    /\ rq.pc = "done"
    /\ rq.src = "handler"
    /\ rq.resp.status = 429
    /\ OverLimit(rq.saw[1], rq.sawAt)

\* C4: no 429 response is ever in the edge cache or in the middleware's
\* cache, nor on its way into one, and no request is answered with a 429
\* out of a cache.
C4_No429Cached ==
    /\ \A k \in DOMAIN edgeCache : edgeCache[k].status # 429
    /\ \A k \in DOMAIN mwCache : mwCache[k].status # 429
    /\ \A t \in cachePuts \cup mwPuts : t.resp.status # 429
    /\ FromCache(rq) => rq.resp.status # 429

\* a 429 was returned, its window has since rolled over, and nothing is
\* cached for that URL
C4_Witness ==
    /\ rq.pc = "done"
    /\ rq.resp.status = 429
    /\ clock - rq.sawAt > USAGE_WINDOW
    /\ Url(rq) \notin DOMAIN edgeCache
    /\ Url(rq) \notin DOMAIN mwCache
    /\ cachePuts = {} /\ mwPuts = {}

\* the response sent is the response stored, but for the header the cache
\* middleware adds on the way out
SentFrom(sent, stored) == sent = stored \/ sent = addHeader(stored)

\* C5: whatever terminal response other than 429 a request ends with, that
\* response is in the edge cache under the request URL, or on its way there,
\* when the request returns.
C5_EveryResponseCached ==
    (rq.pc = "done" /\ ~FromCache(rq) /\ rq.resp.status # 429)
    => \/ (Url(rq) \in DOMAIN edgeCache /\ SentFrom(rq.resp, edgeCache[Url(rq)]))
       \/ \E t \in cachePuts : t.key = Url(rq) /\ SentFrom(rq.resp, t.resp)

\* C6: when the head result carries a redirect target T as custom metadata,
\* the request ends with 302 to exactly T, having touched nothing but the
\* head: no object read, no ledger, no origin.
C6_StoredRedirect ==
    (rq.head # <<>> /\ rq.head[1] # <<>> /\ rq.head[1][1].redirect # <<>>)
    => ( /\ rq.pc = "done"
         /\ rq.resp.status = 302
         /\ rq.resp.location = rq.head[1][1].redirect
         /\ rq.trace = <<"r2.head">> )

\* C7: when the origin does not answer within 20 seconds the request ends
\* with 504 without tracking usage or scheduling a write-back, and no fetch
\* leaves its timer armed.
C7_SlowOriginTimesOut ==
    /\ rq.slow
         => ( /\ rq.pc = "done"
              /\ rq.resp.status = 504
              /\ "kv.put" \notin Range(rq.trace)
              /\ "r2.put" \notin Range(rq.trace) )
    /\ ("fetch" \in Range(rq.trace) /\ rq.pc # "fetch") => rq.timer # "armed"

\* C8: the step that registers the write-back also returns the response,
\* without waiting for it; and a write-back that settles or fails later
\* leaves the response of its request as it was returned.
C8_WriteBackDetached ==
    [][ /\ (rq.pc = "respond" /\ rq' # rq)
           => ( /\ rq'.pc = "done"
                /\ \E t \in r2Puts' \ r2Puts : t.id = rq.id /\ t.key = rq.key )
        /\ (r2Puts \ r2Puts' # {}) => rq' = rq
      ]_vars

\* the response is out while the write-back of the same request is pending
C8_Witness ==
    /\ rq.pc = "done"
    /\ rq.resp.status = 200
    /\ \E t \in r2Puts : t.id = rq.id

\* the track at position i of the log is the last one on its fingerprint
\* before position j
LastTrackBefore(i, j) ==
    /\ i < j
    /\ uLog[i].op = "track"
    /\ uLog[i].fp = uLog[j].fp
    /\ \A k \in (i + 1)..(j - 1) : ~(uLog[k].op = "track" /\ uLog[k].fp = uLog[j].fp)

\* C9: a check that is called after a track of at least MAX_USAGE bytes on
\* the same fingerprint has completed, with no other track on it completing
\* before the check returns, reports exceeded when no time has passed and
\* not exceeded when more than USAGE_WINDOW has passed; and no step of a
\* check writes the ledger.
C9_UsageWindowLaw ==
    /\ [](\A i \in DOMAIN uLog, j \in DOMAIN uLog :
            ( /\ LastTrackBefore(i, j)
              /\ uLog[j].op = "check"
              /\ uLog[j].began >= i
              /\ uLog[i].bytes >= MAX_USAGE )
            => ( /\ uLog[j].at = uLog[i].at => uLog[j].exceeded
                 /\ uLog[j].at - uLog[i].at > USAGE_WINDOW => ~uLog[j].exceeded ))
    /\ [][ ledger' # ledger
             => (Len(uLog') > Len(uLog) /\ uLog'[Len(uLog')].op = "track") ]_vars

\* track, check at once (exceeded), check after the window (not exceeded)
C9_Witness ==
    /\ Len(uLog) = 3
    /\ uLog[1].op = "track" /\ uLog[1].bytes = MAX_USAGE
    /\ uLog[2].op = "check" /\ uLog[2].fp = uLog[1].fp
    /\ uLog[2].at = uLog[1].at /\ uLog[2].exceeded
    /\ uLog[3].op = "check" /\ uLog[3].fp = uLog[1].fp
    /\ uLog[3].at - uLog[1].at > USAGE_WINDOW /\ ~uLog[3].exceeded

\* C10: a request with client-address header to a host that is not a key of
\* the host table ends with 404 without touching the primary store, the
\* ledger or the origin.
C10_UnknownHost404 ==
    (PastLookups(rq) /\ rq.ip /\ rq.host \notin ConfiguredHosts)
    => (rq.pc = "done" /\ rq.resp.status = 404 /\ rq.trace = <<>>)

\* C11: a request with client-address header and a method other than GET to
\* a configured host, not answered out of a cache, ends with 405 without
\* touching the primary store, the ledger or the origin.
C11_NonGetRejected405 ==
    ( /\ PastLookups(rq)
      /\ rq.ip
      /\ rq.method # "GET"
      /\ rq.host \in ConfiguredHosts
      /\ ~FromCache(rq) )
    => (rq.pc = "done" /\ rq.resp.status = 405 /\ rq.trace = <<>>)

\* the head of the request found an object without redirect metadata
PrimaryHit(r) == r.head # <<>> /\ r.head[1] # <<>> /\ r.head[1][1].redirect = <<>>

\* C12 as stated: a request whose storage key is in the primary store
\* without redirect metadata ends with 200 and the body of that object, and
\* accesses neither the origin nor the ledger.
C12_PrimaryHit200 ==
    PrimaryHit(rq)
    => ( /\ rq.trace \in {<<"r2.head">>, <<"r2.head", "r2.get">>}
         /\ rq.pc = "done"
              => ( /\ rq.resp.status = 200
                   /\ rq.resp.of = rq.head[1][1].of
                   /\ rq.trace = <<"r2.head", "r2.get">> ) )

\* C12 amended: on such a hit neither the origin nor the ledger is accessed;
\* index.ts reads the object from the primary store and answers 200 with its
\* body, part_000 reads nothing more and answers 302 to the public URL of
\* the storage key.
C12_PrimaryHitServedLocally ==
    PrimaryHit(rq)
    => ( /\ rq.pc \in {"get", "done"}
         /\ rq.trace \in {<<"r2.head">>, <<"r2.head", "r2.get">>}
         /\ (rq.pc = "done" /\ variant = "index.ts")
              => ( /\ rq.resp.status = 200
                   /\ rq.resp.of = rq.head[1][1].of
                   /\ rq.resp.form = rq.head[1][1].form
                   /\ rq.trace = <<"r2.head", "r2.get">> )
         /\ (rq.pc = "done" /\ variant = "part_000")
              => ( /\ rq.resp.status = 302
                   /\ rq.resp.location = r2Url(rq.key)
                   /\ rq.trace = <<"r2.head">> ) )

\* GET / on the index-file host, index.html already migrated: 200 from the
\* primary store
C12_Witness ==
    /\ rq.pc = "done"
    /\ rq.path = RootPath
    /\ rq.key = <<"results.openaddresses.io", "/", "i","n","d","e","x",".","h","t","m","l">>
    /\ PrimaryHit(rq)
    /\ rq.src = "handler"
    /\ rq.resp.status = 200
    /\ rq.resp.of = r2[rq.key].of

\* C13: sanitizePath is idempotent: a second call on the result of the
\* first returns that result unchanged.
C13_SanitizeIdempotent ==
    sPc = "twice" => sOut = sanitizePath(sIn)

\* C14: when the origin answers with success and no redirect target, the
\* step that responds hands a duplicate of the one body (a tee branch or a
\* full buffer) to the write-back and to the 200 response, and for every
\* body each of the two receives exactly the origin's bytes.
C14_BodyDuplicated ==
    [][ ( /\ rq.pc = "respond"
          /\ rq' # rq
          /\ rq.s3[1].status = 200
          /\ rq.s3[1].redirect = <<>> )
        => ( /\ rq'.resp.status = 200
             /\ \E t \in r2Puts' \ r2Puts :
                   /\ t.id = rq.id
                   /\ t.obj.form \in {"tee", "text"}
                   /\ rq'.resp.form = t.obj.form
                   /\ \A b \in OriginBodies : Delivered(t.obj.form, b) = {b} )
      ]_vars

\* how many times the request wrote the ledger
LedgerPuts(r) == Cardinality({i \in DOMAIN r.trace : r.trace[i] = "kv.put"})

\* the usage a track of bytes must leave, given the entry before it
TrackedUsage(before, now, bytes) ==
    IF before # <<>> /\ now - before[1].timestamp <= USAGE_WINDOW
    THEN before[1].usage + bytes
    ELSE bytes

\* the ledger changes only in the step of a request that ends its track,
\* which writes the entry of the request's fingerprint with the declared
\* length added to the usage the track had read, or with the length alone
\* when the window has expired
LedgerWrittenByTrackOnly ==
    [][ IF rq.pc = "tracking" /\ rq' # rq /\ rq'.id = rq.id
        THEN LET k == fingerprintKey(rq.client)
             IN  /\ LedgerPuts(rq') = LedgerPuts(rq) + 1
                 /\ DOMAIN ledger' = DOMAIN ledger \cup {k}
                 /\ \A j \in DOMAIN ledger : j # k => ledger'[j] = ledger[j]
                 /\ ledger'[k].usage = TrackedUsage(rq.got[1], clock, rq.s3[1].len)
                 /\ ledger'[k].timestamp = clock
        ELSE ledger' = ledger /\ (rq'.id = rq.id => LedgerPuts(rq') = LedgerPuts(rq))
      ]_vars

\* C15 as stated: a request writes the ledger exactly once when the origin's
\* answer (other than 404) declares a content length, with that length
\* added, and not at all when the answer has no content-length header.
C15_TrackedIffLengthDeclared ==
    /\ [](rq.pc \in {"respond", "done"} /\ rq.s3 # <<>> /\ rq.s3[1].status # 404
            => LedgerPuts(rq) = IF rq.s3[1].len # NoLen THEN 1 ELSE 0)
    /\ [](LedgerPuts(rq) > 0 => (rq.s3 # <<>> /\ rq.s3[1].len # NoLen))
    /\ LedgerWrittenByTrackOnly

\* C15 amended: index.ts writes the ledger exactly once when the answer
\* declares a content length (also a length of 0); part_000 writes it exactly
\* once when the declared length is greater than 0 and not at all for a
\* declared length of 0; neither writes it without a content-length header.
C15_TrackedPerSnapshot ==
    /\ [](rq.pc \in {"respond", "done"} /\ rq.s3 # <<>> /\ rq.s3[1].status # 404
            => LedgerPuts(rq) =
                 IF rq.s3[1].len = NoLen THEN 0
                 ELSE IF variant = "part_000" /\ rq.s3[1].len = 0 THEN 0
                 ELSE 1)
    /\ [](LedgerPuts(rq) > 0 => (rq.s3 # <<>> /\ rq.s3[1].len # NoLen))
    /\ LedgerWrittenByTrackOnly

\* a transfer of declared length 1 was added to the usage the check had read
C15_Witness ==
    /\ rq.pc = "done"
    /\ LedgerPuts(rq) = 1
    /\ rq.s3[1].len = 1
    /\ rq.saw[1] # <<>>
    /\ clock - rq.saw[1][1].timestamp <= USAGE_WINDOW
    /\ ledger[fingerprintKey(rq.client)].usage = rq.saw[1][1].usage + 1

\* three tracks on one fingerprint have completed within one window: the
\* first created the entry, and the last call of each of the two callers
\* read an entry, that is, began after the first had put
TwoTracksOnEntry ==
    /\ Len(uLog) = 3
    /\ \A i \in 1..3 : uLog[i].op = "track" /\ uLog[i].fp = uLog[1].fp
    /\ \A c \in Callers : uPc[c] = "idle" /\ uArg[c].fp = uLog[1].fp /\ uArg[c].read # <<>>
    /\ clock - uLog[1].at <= USAGE_WINDOW

\* C16: two tracks of a and b bytes that both begin on an unexpired entry
\* with usage u end, in every interleaving of their get and put steps, with
\* usage u+a, u+b or u+a+b, never more.
C16_LastWriterWins ==
    TwoTracksOnEntry
    => LET u == uLog[1].bytes
           a == uArg[1].bytes
           b == uArg[2].bytes
           usage == ledger[uLog[1].fp].usage
       IN  usage \in {u + a, u + b, u + a + b} /\ usage <= u + a + b

\* both callers read the same entry and the second put erased the first: a
\* lost update
C16_Witness ==
    /\ TwoTracksOnEntry
    /\ uArg[1].read = uArg[2].read
    /\ ledger[uLog[1].fp].usage = uLog[1].bytes + uArg[1].bytes
    /\ ledger[uLog[1].fp].usage < uLog[1].bytes + uArg[1].bytes + uArg[2].bytes

\* the entry at position i of the log is a track on fingerprint f
TrackOn(i, f) == uLog[i].op = "track" /\ uLog[i].fp = f

\* C17 as stated: a check called after the calls before it have returned,
\* more than USAGE_WINDOW after the first track on its fingerprint, while
\* no track between the two came later than
\* USAGE_WINDOW after that first track, finds the usage reset: it does not
\* report exceeded.
C17_ResetFromFirstTrack ==
    \A i \in DOMAIN uLog, j \in DOMAIN uLog :
       ( /\ i < j
         /\ uLog[j].op = "check"
         /\ uLog[j].began = j - 1
         /\ TrackOn(i, uLog[j].fp)
         /\ \A k \in 1..(i - 1) : ~TrackOn(k, uLog[j].fp)
         /\ \A k \in (i + 1)..(j - 1) :
               TrackOn(k, uLog[j].fp) => uLog[k].at - uLog[i].at <= USAGE_WINDOW
         /\ uLog[j].at - uLog[i].at > USAGE_WINDOW )
       => ~uLog[j].exceeded

\* C17 amended: the window runs from the most recent track.  The entry of a
\* fingerprint carries the time of the last track on it; a check more than
\* USAGE_WINDOW after that track does not report exceeded; and a check that
\* reports exceeded is within USAGE_WINDOW of that track, however long ago
\* the first track was.
C17_ResetFromLastTrack ==
    /\ \A f \in DOMAIN ledger :
          \E i \in DOMAIN uLog :
             /\ TrackOn(i, f)
             /\ \A k \in (i + 1)..Len(uLog) : ~TrackOn(k, f)
             /\ ledger[f].timestamp = uLog[i].at
    /\ \A j \in DOMAIN uLog :
          uLog[j].op = "check"
          => /\ \A i \in DOMAIN uLog :
                   (LastTrackBefore(i, j) /\ uLog[j].at - uLog[i].at > USAGE_WINDOW)
                   => ~uLog[j].exceeded
             /\ uLog[j].exceeded
                   => \E i \in DOMAIN uLog :
                         LastTrackBefore(i, j) /\ uLog[j].at - uLog[i].at <= USAGE_WINDOW

\* a track at the limit, a second track half a window later, and a check
\* more than a window after the first track that still reports exceeded
C17_Witness ==
    /\ Len(uLog) = 3
    /\ uLog[1].op = "track" /\ uLog[1].bytes = MAX_USAGE
    /\ TrackOn(2, uLog[1].fp)
    /\ uLog[2].at > uLog[1].at /\ uLog[2].at - uLog[1].at <= USAGE_WINDOW
    /\ uLog[3].op = "check" /\ uLog[3].fp = uLog[1].fp
    /\ uLog[3].at - uLog[1].at > USAGE_WINDOW
    /\ uLog[3].exceeded

\* the request missed on head, fetched, and registered its write-back
WroteBack(r) ==
    r.pc = "done" /\ r.head = << <<>> >> /\ "r2.put" \in Range(r.trace)

\* two requests for one key were in flight together, both missed and wrote
\* back, no write-back is pending any more and the key is stored
BothWroteBack ==
    /\ parked # <<>>
    /\ WroteBack(rq) /\ WroteBack(parked[1])
    /\ rq.key = parked[1].key
    /\ r2Puts = {}
    /\ rq.key \in DOMAIN r2

\* the response a request gives for the origin answer a to the URL url when
\* it is the only request
SingleRequestResponse(r, url, a) ==
    IF a.redirect # <<>> THEN r.resp = RedirectTo(a.redirect, r.key).resp
    ELSE /\ r.resp.status = a.status
         /\ r.resp.of = url
         /\ \A b \in OriginBodies : Delivered(r.resp.form, b) = {b}

\* C18: when two requests for one absent key both miss on head and both
\* fetch, then once their write-backs have settled the primary store holds
\* for the key exactly the origin's object, body and redirect metadata, and
\* each request has the response it would have had alone.
C18_DuplicateWriteBackExact ==
    BothWroteBack
    => LET url == OriginPath(rq.config[1].s3_bucket, rq.name)
           a == origin[url]
       IN  /\ r2[rq.key].of = url
           /\ r2[rq.key].redirect = a.redirect
           /\ \A b \in OriginBodies : Delivered(r2[rq.key].form, b) = {b}
           /\ SingleRequestResponse(rq, url, a)
           /\ SingleRequestResponse(parked[1], url, a)

\* the head of the request found the key in the primary store
FoundInPrimary(r) == r.head # <<>> /\ r.head[1] # <<>>

\* C19: no step removes a key from the primary store; a request that heads
\* a key the store holds gets a hit and goes on to the object read or to its
\* response; and a request with a hit ends with 200 or 302 from the handler
\* having accessed neither the origin nor the ledger.
C19_MigrationProgress ==
    /\ [][ \A k \in DOMAIN r2 : k \in DOMAIN r2' ]_vars
    /\ [][ (rq.pc = "head" /\ rq' # rq /\ rq.key \in DOMAIN r2)
           => ( /\ rq'.head = << <<r2[rq.key]>> >>
                /\ rq'.pc \in {"get", "done"} ) ]_vars
    /\ [](FoundInPrimary(rq)
            => ( /\ rq.pc \in {"get", "done"}
                 /\ rq.key \in DOMAIN r2
                 /\ Range(rq.trace) \subseteq {"r2.head", "r2.get"}
                 /\ rq.pc = "done"
                      => (rq.src = "handler" /\ rq.resp.status \in {200, 302}) ))

\* C20: for a request to a configured host, the storage key starts with the
\* host's bucket name and a slash, and the path of the origin URL it
\* fetches, as the URL parser normalises it, starts with that bucket name
\* and a slash too.
C20_BucketIsolation ==
    (rq.host \in ConfiguredHosts /\ rq.key # <<>>)
    => LET bucket == hostToBucketMapping[rq.host].s3_bucket
       IN  /\ StartsWith(rq.key, <<bucket, "/">>)
           /\ "fetch" \in Range(rq.trace)
                => StartsWith(OriginPath(bucket, rq.name), <<bucket, "/">>)

\* the response status is a success status (2xx)
SuccessStatus(status) == status >= 200 /\ status <= 299

\* C21: a write-back is scheduled only for an origin answer with a success
\* status, so every object in the primary store, and every object on its
\* way there, is a copy of an object the origin served with success.
C21_OnlySuccessesPersisted ==
    /\ \A t \in r2Puts :
          t.obj.of \in DOMAIN origin /\ SuccessStatus(origin[t.obj.of].status)
    /\ \A k \in DOMAIN r2 :
          r2[k].of \in DOMAIN origin /\ SuccessStatus(origin[r2[k].of].status)
    /\ "r2.put" \in Range(rq.trace)
          => (rq.s3 # <<>> /\ SuccessStatus(rq.s3[1].status))

=============================================================================
